---- MODULE Spec2Model ----
(***************************************************************************)
(* A model of schemafy's generator (src/lib.rs): the Expander that turns a *)
(* draft-4 JSON schema document into Rust type declarations.               *)
(*                                                                         *)
(* Text (schema keys, $ref strings, type names) is a sequence of           *)
(* one-character strings, so that case conversion, '/'-splitting, prefix   *)
(* tests and concatenation are computed and not assumed.  Option<T> is a   *)
(* sequence of length 0 (None) or 1 (Some).  BTreeMap<String, T> is a      *)
(* sequence of <<key, value>> pairs kept in ascending key order.           *)
(***************************************************************************)
EXTENDS Integers, Sequences, FiniteSets, TLC

VARIABLES
    root,           \* Expander.root: the schema document
    root_name,      \* Expander.root_name: Option<&str>
    current_type,   \* Expander.current_type
    current_field,  \* Expander.current_field
    types,          \* Expander.types: Vec<(String, TokenStream)>
    pc,             \* where the run of expand() is
    def_idx,        \* the definitions of the root already expanded by the driver loop
    output,         \* what expand() returned: Option of the emitted declarations
    arg,            \* the argument of the function applied (NormSpec, TypeSpec)
    ret             \* what that function returned

vars == <<root, root_name, current_type, current_field, types, pc, def_idx,
          output, arg, ret>>

(***************************************************************************)
(* Characters                                                              *)
(***************************************************************************)
LowerChars == <<"a","b","c","d","e","f","g","h","i","j","k","l","m",
                "n","o","p","q","r","s","t","u","v","w","x","y","z">>
UpperChars == <<"A","B","C","D","E","F","G","H","I","J","K","L","M",
                "N","O","P","Q","R","S","T","U","V","W","X","Y","Z">>
DigitChars == <<"0","1","2","3","4","5","6","7","8","9">>

\* The characters in ascending code-point order (the order of String's Ord).
CharOrder == <<" ", "\"", "#", "$", ",", "-", "/">> \o DigitChars
             \o <<":", "<", "=", ">">> \o UpperChars \o <<"_">> \o LowerChars

Range(s) == {s[i] : i \in 1..Len(s)}

IndexOf(c, s) == CHOOSE i \in 1..Len(s) : s[i] = c

IsLower(c) == c \in Range(LowerChars)
IsUpper(c) == c \in Range(UpperChars)
IsNumeric(c) == c \in Range(DigitChars)
IsAlphanumeric(c) == IsLower(c) \/ IsUpper(c) \/ IsNumeric(c)

ToAsciiUppercase(c) == IF IsLower(c) THEN UpperChars[IndexOf(c, LowerChars)] ELSE c
ToAsciiLowercase(c) == IF IsUpper(c) THEN LowerChars[IndexOf(c, UpperChars)] ELSE c

Ord(c) == IndexOf(c, CharOrder)

\* a < b for strings: lexicographic on code points, a proper prefix first.
RECURSIVE StrLess(_, _)
StrLess(a, b) ==
    IF b = <<>> THEN FALSE
    ELSE IF a = <<>> THEN TRUE
    ELSE IF a[1] = b[1] THEN StrLess(Tail(a), Tail(b))
    ELSE Ord(a[1]) < Ord(b[1])

StartsWith(s, p) == Len(p) <= Len(s) /\ SubSeq(s, 1, Len(p)) = p

(***************************************************************************)
(* Option                                                                  *)
(***************************************************************************)
None == <<>>
Some(x) == <<x>>
IsSome(o) == Len(o) = 1
Get(o) == o[1]

(***************************************************************************)
(* Binding by value: F applied to the value of e, with e evaluated once.   *)
(* (An operator argument and a LET definition are evaluated at every use.) *)
(***************************************************************************)
Let(e, F(_)) == CHOOSE y \in {F(x) : x \in {e}} : TRUE

(***************************************************************************)
(* Identifier casing                                                       *)
(***************************************************************************)
\* str::replace(|c| !c.is_alphanumeric() && c != '_', "_")
replace_invalid_identifier_chars(s) ==
    [i \in 1..Len(s) |-> IF ~IsAlphanumeric(s[i]) /\ s[i] # "_" THEN "_" ELSE s[i]]

RECURSIVE TrimRight(_)
TrimRight(s) ==
    IF s # <<>> /\ s[Len(s)] = " " THEN TrimRight(SubSeq(s, 1, Len(s) - 1)) ELSE s

\* Inflector's camel-like conversion with the options of to_pascal_case
\* (new_word = true, last_char = ' ', no separator, not inverted): one pass
\* over the characters carrying new_word, last_char and found_real_char.
RECURSIVE PascalFrom(_, _, _, _, _)
PascalFrom(s, new_word, last_char, found_real_char, result) ==
    IF s = <<>> THEN result
    ELSE LET c == s[1]
             rest == Tail(s)
         IN  IF ~IsAlphanumeric(c) /\ found_real_char
                 THEN PascalFrom(rest, TRUE, last_char, found_real_char, result)
             ELSE IF ~found_real_char /\ ~IsAlphanumeric(c)
                 THEN PascalFrom(rest, new_word, last_char, found_real_char, result)
             ELSE IF IsNumeric(c)
                 THEN PascalFrom(rest, TRUE, last_char, TRUE, Append(result, c))
             ELSE IF new_word \/ (IsLower(last_char) /\ IsUpper(c) /\ last_char # " ")
                 THEN PascalFrom(rest, FALSE, last_char, TRUE,
                                 Append(result, ToAsciiUppercase(c)))
             ELSE PascalFrom(rest, new_word, c, TRUE,
                             Append(result, ToAsciiLowercase(c)))

to_pascal_case(s) == PascalFrom(TrimRight(s), TRUE, " ", FALSE, <<>>)

(***************************************************************************)
(* Literal text                                                            *)
(***************************************************************************)
HASH == <<"#">>
DEFINITIONS == <<"d","e","f","i","n","i","t","i","o","n","s">>
ITEM == <<"I","t","e","m">>
T_VALUE == <<"s","e","r","d","e","_","j","s","o","n",":",":","V","a","l","u","e">>
T_STRING == <<"S","t","r","i","n","g">>
T_I64 == <<"i","6","4">>
T_BOOL == <<"b","o","o","l">>
T_F64 == <<"f","6","4">>
T_BTREEMAP == <<":",":","s","t","d",":",":","c","o","l","l","e","c","t","i","o","n","s",
                ":",":","B","T","r","e","e","M","a","p","<","S","t","r","i","n","g",","," ">>
OPTION_LT == <<"O","p","t","i","o","n","<">>
BOX_LT == <<"B","o","x","<">>
VEC_LT == <<"V","e","c","<">>
GT == <<">">>
SCHEMAFY_PATH == <<":",":","s","c","h","e","m","a","f","y","_","c","o","r","e",":",":">>
WITH_EQ == <<"w","i","t","h","=","\"">>
ONE_OR_MANY == <<"o","n","e","_","o","r","_","m","a","n","y","\"">>

(***************************************************************************)
(* serde_json::Value and the Schema node                                   *)
(***************************************************************************)
JNull == [k |-> "null"]
JBool(b) == [k |-> "bool", b |-> b]
JNum(n) == [k |-> "number", n |-> n]
JStr(s) == [k |-> "string", s |-> s]
\* A JSON object: whether it has no members, and the Schema that
\* serde_json::from_value reads from it.
JObj(empty, schema) == [k |-> "object", empty |-> empty, schema |-> schema]

\* Schema::default(): every attribute absent.
Schema0 ==
    [ref_ |-> None, type_ |-> <<>>, properties |-> <<>>, required |-> None,
     items |-> <<>>, additional_properties |-> None, enum_ |-> None,
     any_of |-> None, all_of |-> None, description |-> None, default |-> None,
     definitions |-> <<>>]

(***************************************************************************)
(* BTreeMap<String, T> as a key-ordered sequence of <<key, value>>         *)
(***************************************************************************)
MapHas(m, k) == \E i \in 1..Len(m) : m[i][1] = k
MapGet(m, k) == m[CHOOSE i \in 1..Len(m) : m[i][1] = k][2]
MapKeys(m) == [i \in 1..Len(m) |-> m[i][1]]

\* insert, or replace the value of an existing key
MapPut(m, k, v) ==
    IF MapHas(m, k)
    THEN [i \in 1..Len(m) |-> IF m[i][1] = k THEN <<k, v>> ELSE m[i]]
    ELSE LET n == Cardinality({i \in 1..Len(m) : StrLess(m[i][1], k)})
         IN  SubSeq(m, 1, n) \o <<<<k, v>>>> \o SubSeq(m, n + 1, Len(m))

\* the map of the first n entries of pairs
RECURSIVE MapOfFirst(_, _)
MapOfFirst(pairs, n) ==
    IF n = 0 THEN <<>>
    ELSE Let(MapOfFirst(pairs, n - 1), LAMBDA m : MapPut(m, pairs[n][1], pairs[n][2]))

MapOf(pairs) == Let(pairs, LAMBDA p : MapOfFirst(p, Len(p)))

(***************************************************************************)
(* Results of calls that may panic or not return                           *)
(***************************************************************************)
Ok(v) == [st |-> "ok", v |-> v]
Panic(msg) == [st |-> "panic", msg |-> msg]
Diverge == [st |-> "diverge"]

(***************************************************************************)
(* merge_option, merge_all_of                                              *)
(***************************************************************************)
\* merge_option that lets a later Some replace an earlier one
merge_option_overwrite(result, r) == IF IsSome(r) THEN r ELSE result

\* merge_option(&mut result.required, &r.required, |a, b| a.extend(b))
merge_option(result, r) ==
    IF IsSome(result) /\ IsSome(r) THEN Some(Get(result) \o Get(r))
    ELSE IF ~IsSome(result) /\ IsSome(r) THEN Some(Get(r))
    ELSE result

\* result.type_.retain(|e| r.type_.contains(e))
retain_types(result_type, r_type) ==
    SelectSeq(result_type, LAMBDA e : e \in Range(r_type))

RECURSIVE merge_all_of(_, _)
RECURSIVE merge_properties(_, _, _)
merge_properties(props, r_props, i) ==
    IF i > Len(r_props) THEN props
    ELSE LET k == r_props[i][1]
             v == r_props[i][2]
         IN  Let(IF MapHas(props, k)
                 THEN Let(merge_all_of(MapGet(props, k), v), LAMBDA e : MapPut(props, k, e))
                 ELSE MapPut(props, k, v),
                 LAMBDA merged : merge_properties(merged, r_props, i + 1))

merge_all_of(result, r) ==
    [result EXCEPT
        !.properties = merge_properties(result.properties, r.properties, 1),
        !.ref_ = IF IsSome(r.ref_) THEN r.ref_ ELSE @,
        !.description = IF IsSome(r.description) THEN r.description ELSE @,
        !.required = merge_option(@, r.required),
        !.type_ = retain_types(@, r.type_)]

(***************************************************************************)
(* Expander::type_ref, schema_ref, schema                                  *)
(***************************************************************************)
\* str::split('/')
RECURSIVE SplitFrom(_, _, _)
SplitFrom(s, cur, acc) ==
    IF s = <<>> THEN Append(acc, cur)
    ELSE IF s[1] = "/" THEN SplitFrom(Tail(s), <<>>, Append(acc, cur))
    ELSE SplitFrom(Tail(s), Append(cur, s[1]), acc)

Split(s) == SplitFrom(s, <<>>, <<>>)

\* replace_invalid_identifier_chars(&s.to_pascal_case())
type_name_of(s) ==
    Let(to_pascal_case(s), LAMBDA pascal : replace_invalid_identifier_chars(pascal))

type_ref(self, s) ==
    IF s = HASH
    THEN IF IsSome(self.root_name)
         THEN Ok(type_name_of(Get(self.root_name)))
         ELSE Panic("No root name specified for schema")
    ELSE Let(Split(s), LAMBDA comps : Ok(type_name_of(comps[Len(comps)])))

RECURSIVE schema_ref_fold(_, _, _, _)
schema_ref_fold(self, comps, i, schema) ==
    IF i > Len(comps) THEN Ok(schema)
    ELSE LET comp == comps[i]
         IN  IF comp = HASH THEN schema_ref_fold(self, comps, i + 1, self.root)
             ELSE IF comp = DEFINITIONS THEN schema_ref_fold(self, comps, i + 1, schema)
             ELSE IF MapHas(schema.definitions, comp)
                 THEN Let(MapGet(schema.definitions, comp),
                          LAMBDA def : schema_ref_fold(self, comps, i + 1, def))
             ELSE Panic("Expected definition")

schema_ref(self, s) ==
    Let(Split(s), LAMBDA comps : schema_ref_fold(self, comps, 1, self.root))

\* The recursion depth at which a call of Expander::schema is taken not to
\* return (the stack is exhausted).
MaxDepth == 8

has_all_of(s) == IsSome(s.all_of) /\ Get(s.all_of) # <<>>

\* fuel: how many more nested calls of schema the stack holds
RECURSIVE schema_at(_, _, _)
RECURSIVE schema_fold(_, _, _, _, _)
schema_fold(self, all_of, i, result, fuel) ==
    IF result.st # "ok" \/ i > Len(all_of) THEN result
    ELSE Let(schema_at(self, all_of[i], fuel), LAMBDA def :
             IF def.st # "ok" THEN def
             ELSE Let(Ok(merge_all_of(result.v, def.v)), LAMBDA merged :
                      schema_fold(self, all_of, i + 1, merged, fuel)))

schema_at(self, schema, fuel) ==
    IF fuel = 0 THEN Diverge
    ELSE Let(IF IsSome(schema.ref_) THEN schema_ref(self, Get(schema.ref_)) ELSE Ok(schema),
             LAMBDA target :
                 IF target.st # "ok" THEN target
                 ELSE IF has_all_of(target.v)
                     THEN Let(schema_at(self, Get(target.v.all_of)[1], fuel - 1),
                              LAMBDA seed :
                                  schema_fold(self, Get(target.v.all_of), 2, seed, fuel - 1))
                 ELSE target)

\* Expander::schema
schema(self, s) == schema_at(self, s, MaxDepth)

(***************************************************************************)
(* The Expander.  `self` is the struct (root_name, schemafy_path, root,    *)
(* current_type, current_field, types) and `status`: "ok", or how the run  *)
(* ended if it did not return ("panic", "diverge").  A method returns      *)
(* [self |-> the struct after the call, v |-> its value].                  *)
(***************************************************************************)
FieldType(typ) == [typ |-> typ, attributes |-> <<>>, default |-> FALSE]

Ret(self, v) == [self |-> self, v |-> v]
\* the call did not return: r is the Panic or Diverge that ended it
Fail(self, r) ==
    [self |-> [self EXCEPT !.status = r.st,
                           !.msg = IF r.st = "panic" THEN r.msg ELSE "stack"],
     v |-> FieldType(<<>>)]

Running(self) == self.status = "ok"

\* syn::Ident::new panics unless the text is an identifier
IsIdent(s) ==
    /\ s # <<>>
    /\ ~IsNumeric(s[1])
    /\ \A i \in 1..Len(s) : IsAlphanumeric(s[i]) \/ s[i] = "_"

RECURSIVE expand_type_(_, _)
RECURSIVE expand_type(_, _, _, _)
RECURSIVE expand_fields_from(_, _, _, _, _, _)
RECURSIVE expand_fields(_, _, _)
RECURSIVE expand_definitions_from(_, _, _)
RECURSIVE expand_definitions(_, _)
RECURSIVE expand_schema(_, _, _)
RECURSIVE expand_schema_body(_, _, _)

\* typ.additional_properties == Some(Value::Bool(false))
additional_properties_false(typ) ==
    typ.additional_properties = Some(JBool(FALSE))

\* expand_type_: the anyOf arm (any_of.len() == 2)
expand_any_of(self, typ) ==
    LET any_of == Get(typ.any_of)
    IN  Let(schema(self, any_of[1]), LAMBDA simple :
        IF simple.st # "ok" THEN Fail(self, simple)
        ELSE Let(schema(self, any_of[2]), LAMBDA array :
        IF array.st # "ok" THEN Fail(self, array)
        ELSE IF array.v.type_ # <<>> /\ array.v.type_[1] = "array"
            THEN IF array.v.items = <<>>
                 THEN Fail(self, Panic("index out of bounds"))
                 ELSE Let(schema(self, array.v.items[1]), LAMBDA item :
                      IF item.st # "ok" THEN Fail(self, item)
                      ELSE IF simple.v = item.v
                          THEN Let(expand_type_(self, any_of[1]), LAMBDA r :
                               Ret(r.self,
                                   [typ |-> VEC_LT \o r.v.typ \o GT,
                                    attributes |->
                                        <<WITH_EQ \o self.schemafy_path \o ONE_OR_MANY>>,
                                    default |-> TRUE]))
                      ELSE Ret(self, FieldType(T_VALUE)))
            ELSE Ret(self, FieldType(T_VALUE))))

\* expand_type_: the arm of a type list of two tags
expand_two_tags(self, typ) ==
    IF typ.type_[1] = "null" \/ typ.type_[2] = "null"
    THEN Let(expand_type_(self, [typ EXCEPT !.type_ = SelectSeq(@, LAMBDA x : x # "null")]),
             LAMBDA r : Ret(r.self, [typ |-> OPTION_LT \o r.v.typ \o GT,
                                     attributes |-> <<>>, default |-> TRUE]))
    ELSE Ret(self, FieldType(T_VALUE))

\* expand_type_: SimpleTypes::Object defined inline
expand_inline_object(self, typ) ==
    Let(to_pascal_case(self.current_type) \o to_pascal_case(self.current_field),
        LAMBDA name :
            Let(expand_schema(self, name, typ), LAMBDA r :
                IF ~Running(r.self) THEN Ret(r.self, FieldType(<<>>))
                ELSE Ret([r.self EXCEPT !.types = Append(@, <<name, r.v>>)],
                         FieldType(name))))

\* expand_type_: SimpleTypes::Object as a map
expand_map(self, typ) ==
    Let(IF IsSome(typ.additional_properties) /\ Get(typ.additional_properties).k = "object"
        THEN expand_type_(self, Get(typ.additional_properties).schema)
        ELSE Ret(self, FieldType(T_VALUE)),
        LAMBDA r :
            Ret(r.self, [typ |-> T_BTREEMAP \o r.v.typ \o GT,
                         attributes |-> <<>>,
                         default |-> (IsSome(typ.default) /\ Get(typ.default).k = "object"
                                      /\ Get(typ.default).empty)]))

\* expand_type_: SimpleTypes::Array
expand_array(self, typ) ==
    IF typ.items = <<>> THEN Ret(self, FieldType(VEC_LT \o T_VALUE \o GT))
    ELSE Let(expand_type_([self EXCEPT !.current_type = @ \o ITEM], typ.items[1]),
             LAMBDA r : Ret(r.self, FieldType(VEC_LT \o r.v.typ \o GT)))

expand_type_(self, typ) ==
    IF IsSome(typ.ref_)
    THEN Let(type_ref(self, Get(typ.ref_)), LAMBDA r :
             IF r.st = "ok" THEN Ret(self, FieldType(r.v)) ELSE Fail(self, r))
    ELSE IF IsSome(typ.any_of) /\ Len(Get(typ.any_of)) = 2 THEN expand_any_of(self, typ)
    ELSE IF Len(typ.type_) = 2 THEN expand_two_tags(self, typ)
    ELSE IF Len(typ.type_) = 1
    THEN CASE typ.type_[1] = "string" ->
                  IF IsSome(typ.enum_) /\ Get(typ.enum_) = <<>>
                  THEN Ret(self, FieldType(T_VALUE))
                  ELSE Ret(self, FieldType(T_STRING))
           [] typ.type_[1] = "integer" -> Ret(self, FieldType(T_I64))
           [] typ.type_[1] = "boolean" -> Ret(self, FieldType(T_BOOL))
           [] typ.type_[1] = "number" -> Ret(self, FieldType(T_F64))
           [] typ.type_[1] = "object" ->
                  IF typ.properties # <<>> \/ additional_properties_false(typ)
                  THEN expand_inline_object(self, typ)
                  ELSE expand_map(self, typ)
           [] typ.type_[1] = "array" -> expand_array(self, typ)
           [] OTHER -> Ret(self, FieldType(T_VALUE))
    ELSE Ret(self, FieldType(T_VALUE))

\* expand_type: Box<..> around the name of the enclosing type
boxed(type_name, typ) == IF type_name = typ THEN BOX_LT \o typ \o GT ELSE typ

\* expand_type that wraps every field without a default, required or not
optional_always(required, result) ==
    IF ~result.default THEN OPTION_LT \o result.typ \o GT ELSE result.typ

\* expand_type: Option<..> around a field that is not required and has no default
optional(required, result) ==
    IF ~required /\ ~result.default THEN OPTION_LT \o result.typ \o GT ELSE result.typ

expand_type(self, type_name, required, typ) ==
    Let(expand_type_(self, typ), LAMBDA r :
        IF ~Running(r.self) THEN r
        ELSE Let([r.v EXCEPT !.typ = boxed(type_name, @)], LAMBDA result :
                 Ret(r.self, [result EXCEPT !.typ = optional(required, result)])))

\* the required flag of a property: schema.required lists field_name
is_required(sch, field_name) ==
    IsSome(sch.required) /\ field_name \in Range(Get(sch.required))

\* FieldExpander::expand_fields, the map over sch.properties from entry i
\* on: value [fields, default]
expand_fields_from(self, type_name, sch, i, fields, default) ==
    IF ~Running(self) \/ i > Len(sch.properties)
    THEN Ret(self, [fields |-> fields, default |-> default])
    ELSE LET field_name == sch.properties[i][1]
             value == sch.properties[i][2]
         IN  Let(expand_type([self EXCEPT !.current_field = field_name],
                             type_name, is_required(sch, field_name), value),
                 LAMBDA r :
                     Let(<<Append(fields, [name |-> field_name, typ |-> r.v.typ,
                                           default |-> r.v.default,
                                           attributes |-> r.v.attributes]),
                           default /\ StartsWith(r.v.typ, OPTION_LT)>>,
                         LAMBDA acc :
                             expand_fields_from(r.self, type_name, sch, i + 1,
                                                acc[1], acc[2])))

expand_fields(self, type_name, s) ==
    Let(schema(self, s), LAMBDA n :
        IF n.st # "ok" THEN Ret(Fail(self, n).self, [fields |-> <<>>, default |-> TRUE])
        ELSE expand_fields_from(self, type_name, n.v, 1, <<>>, TRUE))

\* expand_schema: is_struct
is_struct(fields, s) == fields # <<>> \/ additional_properties_false(s)

\* expand_schema: schema.enum_ is Some and not empty
has_enum(s) == IsSome(s.enum_) /\ Get(s.enum_) # <<>>

\* expand_schema: the variant of a string literal
enum_variant(v) ==
    Let(to_pascal_case(v), LAMBDA pascal_case_variant :
        [name |-> pascal_case_variant,
         rename |-> IF pascal_case_variant = v THEN None ELSE Some(v)])

\* expand_schema: the variants of the enum, one per string literal
enum_variants(values) ==
    Let(SelectSeq(values, LAMBDA v : v.k = "string"), LAMBDA strings :
        [i \in 1..Len(strings) |-> enum_variant(strings[i].s)])

\* an enum declaration that takes no notice of a null literal
enum_decl_plain(name, values) ==
    [kind |-> "enum", name |-> name, variants |-> enum_variants(values)]

\* expand_schema: the declaration of an enum
enum_decl(name, values) ==
    IF \E i \in 1..Len(values) : values[i].k = "null"
    THEN [kind |-> "optional_enum", name |-> name, enum_name |-> name \o <<"_">>,
          variants |-> enum_variants(values)]
    ELSE [kind |-> "enum", name |-> name, variants |-> enum_variants(values)]

\* expand_schema: #[serde(rename = original_name)] unless the names agree
with_rename(decl, name, original_name) ==
    [decl |-> decl, rename |-> IF name = original_name THEN None ELSE Some(original_name),
     doc |-> None]

\* expand_schema: the declaration, once the fields are expanded
declare(self, pascal_case_name, original_name, s, fields, default) ==
    IF ~IsIdent(pascal_case_name)
    THEN Ret(Fail(self, Panic("not a valid Ident")).self, <<>>)
    ELSE IF is_struct(fields, s)
    THEN Ret(self, with_rename([kind |-> "struct", name |-> pascal_case_name,
                                fields |-> fields, derive_default |-> default],
                               pascal_case_name, original_name))
    ELSE IF has_enum(s)
    THEN IF \E i \in 1..Len(Get(s.enum_)) : Get(s.enum_)[i].k \notin {"string", "null"}
         THEN Ret(Fail(self, Panic("Expected string for enum")).self, <<>>)
         ELSE Ret(self, with_rename(enum_decl(pascal_case_name, Get(s.enum_)),
                                    pascal_case_name, original_name))
    ELSE Let(expand_type(self, <<>>, TRUE, s), LAMBDA t :
             IF ~Running(t.self) THEN Ret(t.self, <<>>)
             ELSE Ret(t.self, [decl |-> [kind |-> "alias", name |-> pascal_case_name,
                                         typ |-> t.v.typ],
                               rename |-> None, doc |-> None]))

\* expand_schema after its call of expand_definitions
expand_schema_body(self, original_name, s) ==
    Let(type_name_of(original_name), LAMBDA pascal_case_name :
        Let(expand_fields([self EXCEPT !.current_type = pascal_case_name], original_name, s),
            LAMBDA f :
                IF ~Running(f.self) THEN Ret(f.self, <<>>)
                ELSE declare(f.self, pascal_case_name, original_name, s,
                             f.v.fields, f.v.default)))

expand_schema(self, original_name, s) ==
    Let(expand_definitions(self, s), LAMBDA d :
        IF ~Running(d) THEN Ret(d, <<>>) ELSE expand_schema_body(d, original_name, s))

\* expand_definitions: one turn of its loop, for the i-th entry of
\* schema.definitions
expand_definition(self, s, i) ==
    LET name == s.definitions[i][1]
        def == s.definitions[i][2]
    IN  Let(expand_schema(self, name, def), LAMBDA r :
            IF ~Running(r.self) THEN r.self
            ELSE [r.self EXCEPT
                     !.types = Append(@, <<name, [r.v EXCEPT !.doc = def.description]>>)])

expand_definitions_from(self, s, i) ==
    IF ~Running(self) \/ i > Len(s.definitions) THEN self
    ELSE Let(expand_definition(self, s, i), LAMBDA next :
             expand_definitions_from(next, s, i + 1))

expand_definitions(self, s) == expand_definitions_from(self, s, 1)

(***************************************************************************)
(* Schema documents                                                        *)
(***************************************************************************)
K_A == <<"A">>
K_B == <<"B">>
K_Node == <<"N","o","d","e">>
K_node == <<"n","o","d","e">>
K_my_node == <<"m","y","_","n","o","d","e">>
K_a_b == <<"a","_","b">>
K_Missing == <<"M","i","s","s","i","n","g">>
K_Root == <<"R","o","o","t">>
F_next == <<"n","e","x","t">>
F_b == <<"b">>
F_c == <<"c">>
F_x == <<"x">>
F_y == <<"y">>
F_z == <<"z">>

\* "#/definitions/<k>"
DefRef(k) == <<"#", "/">> \o DEFINITIONS \o <<"/">> \o k

Ref(s) == [Schema0 EXCEPT !.ref_ = Some(s)]
Typed(t) == [Schema0 EXCEPT !.type_ = <<t>>]
Tags(ts) == [Schema0 EXCEPT !.type_ = ts]
Obj(props) == [Schema0 EXCEPT !.type_ = <<"object">>, !.properties = MapOf(props)]
Required(n, names) == [n EXCEPT !.required = Some(names)]
ArrayOf(item) == [Schema0 EXCEPT !.type_ = <<"array">>, !.items = <<item>>]
AllOf(elems) == [Schema0 EXCEPT !.all_of = Some(elems)]
AnyOf(elems) == [Schema0 EXCEPT !.any_of = Some(elems)]
Enum(values) == [Schema0 EXCEPT !.enum_ = Some(values)]
Closed(n) == [n EXCEPT !.additional_properties = Some(JBool(FALSE))]
WithDefs(n, defs) == [n EXCEPT !.definitions = MapOf(defs)]
Doc(defs) == WithDefs(Schema0, defs)

\* all sequences over S of length lo..hi
SeqsOf(S, lo, hi) == UNION {[1..n -> S] : n \in lo..hi}

\* the entries <<k, f[k]>> for the keys K, in a sequence
RECURSIVE PairsOf(_, _)
PairsOf(K, f) ==
    IF K = {} THEN <<>>
    ELSE LET k == CHOOSE x \in K : TRUE
         IN  Append(PairsOf(K \ {k}, f), <<k, f[k]>>)

\* how many definitions, and how many properties, a drawn document has at most
MaxDefs == 2
MaxProps == 2

DefKeys == {K_Node, K_node, K_A}
RefTargets == {K_A, K_node}

\* a record whose property `next` refers to the definition k itself
SelfRecord(k) == Obj(<<<<F_next, Ref(DefRef(k))>>>>)
\* a record with an inline object as its property `b`
InlineRecord == Obj(<<<<F_b, Obj(<<<<F_c, Typed("integer")>>>>)>>>>)

\* the schemas drawn for the definition of key k
DefShapes(k) ==
    { Typed("string"),
      SelfRecord(k),
      Required(SelfRecord(k), <<F_next>>),
      InlineRecord,
      AllOf(<<Ref(DefRef(k))>>),
      WithDefs(Typed("string"), <<<<K_A, Typed("integer")>>>>) }
    \cup {Ref(DefRef(t)) : t \in RefTargets}
    \cup {Obj(<<<<F_x, Ref(DefRef(t))>>>>) : t \in RefTargets}

\* documents of up to MaxDefs definitions
DefinitionDocs ==
    UNION {
        {Doc(PairsOf(K, f)) :
            f \in {g \in [K -> UNION {DefShapes(k) : k \in K}] :
                      \A k \in K : g[k] \in DefShapes(k)}} :
        K \in {X \in SUBSET DefKeys : Cardinality(X) \in 1..MaxDefs}}

\* "single value or array of that value"
OneOrMany(n) == AnyOf(<<n, ArrayOf(n)>>)

\* the schemas drawn for a property of the record `A`
PropShapes ==
    { Typed("string"),
      Tags(<<"null", "string">>),
      Ref(DefRef(K_A)),
      Closed(Typed("object")),
      [Ref(DefRef(K_A)) EXCEPT !.type_ = <<"null", "string">>] }

PropNames == <<F_x, F_y, F_z, F_b, F_c>>

\* documents of one record `A` of up to MaxProps properties, each listed in
\* `required` or not
RecordDocs ==
    UNION {
        {Doc(<<<<K_A,
                 Required(Obj([i \in 1..n |-> <<PropNames[i], p[i]>>]),
                          SelectSeq([i \in 1..n |-> PropNames[i]],
                                    LAMBDA name : \E i \in R : PropNames[i] = name))>>>>) :
            p \in [1..n -> PropShapes], R \in SUBSET (1..n)} :
        n \in 1..MaxProps}

V_red == <<"r","e","d">>
V_Green == <<"G","r","e","e","n">>
IntProp(name) == <<name, Typed("integer")>>

\* single documents: the shapes of a named schema, references of every
\* position, colliding names, and a root schema with content
CatalogueDocs ==
    { \* enums
      Doc(<<<<K_A, Enum(<<JStr(V_red), JStr(V_Green)>>)>>>>),
      Doc(<<<<K_A, Enum(<<JStr(V_red), JNull, JStr(V_Green)>>)>>>>),
      Doc(<<<<K_A, Enum(<<JStr(V_red), JNum(1)>>)>>>>),
      Doc(<<<<K_A, Enum(<<JNull>>)>>>>),
      Doc(<<<<K_A, [Typed("string") EXCEPT !.enum_ = Some(<<>>)]>>>>),
      Doc(<<<<K_A, [Typed("string") EXCEPT !.enum_ = Some(<<JStr(V_red)>>)]>>>>),
      \* records, closed objects, and both with an enum
      Doc(<<<<K_A, Closed(Schema0)>>>>),
      Doc(<<<<K_A, Closed(Enum(<<JStr(V_red)>>))>>>>),
      Doc(<<<<K_A, [Obj(<<IntProp(F_x)>>) EXCEPT !.enum_ = Some(<<JNum(1)>>)]>>>>),
      Doc(<<<<K_A, Required(Obj(<<IntProp(F_x)>>), <<F_x>>)>>>>),
      \* aliases
      Doc(<<<<K_A, Typed("integer")>>>>),
      Doc(<<<<K_A, Typed("null")>>>>),
      Doc(<<<<K_A, Tags(<<"integer", "string">>)>>>>),
      Doc(<<<<K_A, Tags(<<"string", "null">>)>>>>),
      Doc(<<<<K_A, ArrayOf(Typed("number"))>>>>),
      Doc(<<<<K_A, Typed("array")>>>>),
      Doc(<<<<K_A, Typed("object")>>>>),
      Doc(<<<<K_A, [Typed("object") EXCEPT
                       !.additional_properties = Some(JObj(FALSE, Typed("boolean"))),
                       !.default = Some(JObj(TRUE, Schema0))]>>>>),
      Doc(<<<<K_A, [Typed("object") EXCEPT !.additional_properties = Some(JBool(TRUE))]>>>>),
      Doc(<<<<K_A, OneOrMany(Typed("string"))>>>>),
      Doc(<<<<K_A, Schema0>>>>),
      \* a named schema that reaches its attributes through $ref or allOf
      Doc(<<<<K_A, Ref(DefRef(K_B))>>, <<K_B, Closed(Typed("object"))>>>>),
      Doc(<<<<K_A, Ref(DefRef(K_B))>>, <<K_B, Enum(<<JStr(V_red)>>)>>>>),
      Doc(<<<<K_A, Ref(DefRef(K_B))>>, <<K_B, Obj(<<IntProp(F_x)>>)>>>>),
      Doc(<<<<K_A, AllOf(<<Closed(Schema0)>>)>>>>),
      Doc(<<<<K_A, AllOf(<<Enum(<<JStr(V_red)>>)>>)>>>>),
      Doc(<<<<K_A, AllOf(<<Obj(<<IntProp(F_x)>>),
                            Required(Obj(<<IntProp(F_y)>>), <<F_y>>)>>)>>>>),
      \* references to a definition that does not exist
      Doc(<<<<K_A, Ref(DefRef(K_Missing))>>>>),
      Doc(<<<<K_A, Obj(<<<<F_x, Ref(DefRef(K_Missing))>>>>)>>>>),
      Doc(<<<<K_A, ArrayOf(Ref(DefRef(K_Missing)))>>>>),
      Doc(<<<<K_A, AllOf(<<Ref(DefRef(K_Missing))>>)>>>>),
      Doc(<<<<K_A, AnyOf(<<Ref(DefRef(K_Missing)), Typed("string")>>)>>>>),
      Doc(<<<<K_A, OneOrMany(Ref(DefRef(K_Missing)))>>>>),
      \* references to the root
      Doc(<<<<K_A, Obj(<<<<F_x, Ref(HASH)>>>>)>>>>),
      Doc(<<<<K_A, Ref(HASH)>>>>),
      WithDefs(SelfRecord(<<>>), <<<<K_A, Typed("string")>>>>),
      WithDefs(Obj(<<<<F_next, Ref(HASH)>>>>), <<>>),
      WithDefs(AllOf(<<Ref(HASH)>>), <<<<K_A, Typed("string")>>>>),
      WithDefs(Obj(<<<<F_b, Closed(Typed("object"))>>>>), <<<<K_A, Typed("string")>>>>),
      Doc(<<<<K_my_node, SelfRecord(K_my_node)>>>>),
      Doc(<<<<K_A, Obj(<<<<F_x, ArrayOf(Obj(<<IntProp(F_c)>>))>>,
                         <<F_y, OneOrMany(Typed("string"))>>,
                         <<F_z, Closed(Typed("object"))>>>>)>>>>),
      \* a definition that refers to itself through anyOf
      Doc(<<<<K_A, OneOrMany(Ref(DefRef(K_A)))>>>>),
      Doc(<<<<K_A, AllOf(<<Typed("string"), Ref(DefRef(K_A))>>)>>>>),
      \* an anyOf whose second member is an array without items
      Doc(<<<<K_A, AnyOf(<<Typed("string"), Typed("array")>>)>>>>),
      \* names that meet: inline `A` + `b`, keys `a_b`, `AB`, `A` + `bc`, `AB` + `c`
      Doc(<<<<K_A, InlineRecord>>, <<K_a_b, Typed("string")>>>>),
      Doc(<<<<K_A, InlineRecord>>, <<<<"A", "B">>, Typed("string")>>>>),
      Doc(<<<<K_A, Obj(<<<<<<"b", "c">>, Closed(Typed("object"))>>>>)>>,
            <<<<"A", "B">>, Obj(<<<<F_c, Closed(Typed("object"))>>>>)>>>>),
      \* definitions nested in a definition
      Doc(<<<<K_A, WithDefs(Typed("string"), <<<<K_B, Typed("integer")>>>>)>>,
            <<K_B, Typed("boolean")>>>>),
      Doc(<<<<K_A, WithDefs(Obj(<<<<F_x, Ref(DefRef(K_A) \o <<"/">> \o DEFINITIONS
                                             \o <<"/">> \o K_B)>>>>),
                            <<<<K_B, Typed("integer")>>>>)>>>>) }

Documents == DefinitionDocs \cup RecordDocs \cup CatalogueDocs

RootNames == {None, Some(K_Root), Some(<<"r","o","o","t">>)}

(***************************************************************************)
(* Expander::new and the run of Expander::expand                           *)
(***************************************************************************)
\* the Expander the variables hold
Self ==
    [root_name |-> root_name, schemafy_path |-> SCHEMAFY_PATH, root |-> root,
     current_type |-> current_type, current_field |-> current_field,
     types |-> types, status |-> "ok", msg |-> ""]

\* Expander::new(root_name, schemafy_path, &schema)
New(name, doc) ==
    /\ root = doc
    /\ root_name = name
    /\ current_type = <<>>
    /\ current_field = <<>>
    /\ types = <<>>

Init ==
    /\ \E doc \in Documents, name \in RootNames : New(name, doc)
    /\ pc = "expand"
    /\ def_idx = 0
    /\ output = None
    /\ arg = None
    /\ ret = None

\* the Expander after a call, and where the run is then
Resume(self, next_pc) ==
    /\ current_type' = self.current_type
    /\ current_field' = self.current_field
    /\ types' = self.types
    /\ pc' = IF Running(self) THEN next_pc ELSE self.status

\* expand_definitions(root), one turn of its loop: called by expand() itself
\* or, when a root name is set, by expand_schema(name, root)
ExpandDefinition ==
    /\ pc = "expand"
    /\ def_idx < Len(root.definitions)
    /\ \E self \in {expand_definition(Self, root, def_idx + 1)} :
           /\ Resume(self, "expand")
           /\ def_idx' = IF Running(self) THEN def_idx + 1 ELSE def_idx
    /\ UNCHANGED <<root, root_name, output, arg, ret>>

\* expand(), Some(name): the rest of expand_schema(name, root) and the push
ExpandRoot ==
    /\ pc = "expand"
    /\ def_idx = Len(root.definitions)
    /\ IsSome(root_name)
    /\ \E r \in {expand_schema_body(Self, Get(root_name), root)} :
           \E self \in {IF Running(r.self)
                        THEN [r.self EXCEPT !.types = Append(@, <<Get(root_name), r.v>>)]
                        ELSE r.self} :
               Resume(self, "collect")
    /\ UNCHANGED <<root, root_name, def_idx, output, arg, ret>>

\* expand() that lists the declarations of self.types last to first
CollectReversed ==
    /\ \/ pc = "collect"
       \/ pc = "expand" /\ def_idx = Len(root.definitions) /\ ~IsSome(root_name)
    /\ output' = Some([i \in 1..Len(types) |-> types[Len(types) + 1 - i][2]])
    /\ pc' = "done"
    /\ UNCHANGED <<root, root_name, current_type, current_field, types, def_idx, arg, ret>>

\* expand(): the declarations of self.types, in order
Collect ==
    /\ \/ pc = "collect"
       \/ pc = "expand" /\ def_idx = Len(root.definitions) /\ ~IsSome(root_name)
    /\ output' = Some([i \in 1..Len(types) |-> types[i][2]])
    /\ pc' = "done"
    /\ UNCHANGED <<root, root_name, current_type, current_field, types, def_idx, arg, ret>>

Next == ExpandDefinition \/ ExpandRoot \/ Collect

Spec == Init /\ [][Next]_vars

(***************************************************************************)
(* Expander::schema applied to one node (NormSpec)                         *)
(***************************************************************************)
K_C == <<"C">>
K_D == <<"D">>
K_L == <<"L">>
F_a == <<"a">>

\* how many elements a drawn allOf has at most
MaxAllOf == 3

\* B is a record, C refers to B, D is an allOf, L is an allOf of itself
NormDoc ==
    Doc(<<<<K_B, Required(Obj(<<IntProp(F_x)>>), <<F_x>>)>>,
          <<K_C, Ref(DefRef(K_B))>>,
          <<K_D, AllOf(<<Typed("object"), Required(Schema0, <<F_c>>)>>)>>,
          <<K_L, AllOf(<<Ref(DefRef(K_L))>>)>>>>)

\* the elements drawn for an allOf
AllOfElems ==
    { Schema0,
      Typed("object"),
      Typed("string"),
      Tags(<<"object", "string">>),
      Required(Schema0, <<F_a>>),
      Required(Typed("object"), <<F_b>>),
      Required(Schema0, <<>>),
      Ref(DefRef(K_B)),
      Ref(DefRef(K_C)) }

\* the nodes schema is applied to
NormNodes ==
    {AllOf(elems) : elems \in SeqsOf(AllOfElems, 1, MaxAllOf)}
    \cup AllOfElems
    \cup { Ref(DefRef(K_D)), Ref(DefRef(K_L)), Ref(DefRef(K_Missing)), Ref(HASH),
           AllOf(<<>>),
           AllOf(<<Typed("object"), AllOf(<<Ref(DefRef(K_C)), Required(Schema0, <<F_a>>)>>)>>),
           [Ref(DefRef(K_B)) EXCEPT !.all_of = Some(<<Typed("string")>>)],
           AllOf(<<Obj(<<<<F_x, Typed("integer")>>>>),
                   Obj(<<<<F_x, Required(Typed("integer"), <<F_a>>)>>,
                         <<F_a, Ref(DefRef(K_C))>>>>)>>) }

NormInit ==
    /\ New(Some(K_Root), NormDoc)
    /\ pc = "call"
    /\ def_idx = 0
    /\ output = None
    /\ arg \in {Some(n) : n \in NormNodes}
    /\ ret = <<>>

\* how a call that took the result r ended
Ended(r, returned) == IF r.st = "ok" THEN returned ELSE r.st

\* self.schema(arg)
Normalize ==
    /\ pc = "call"
    /\ \E r \in {schema(Self, Get(arg))} :
           /\ ret' = <<r>>
           /\ pc' = Ended(r, "returned")
    /\ UNCHANGED <<root, root_name, current_type, current_field, types, def_idx, output, arg>>

\* self.schema(the node the first call returned)
Renormalize ==
    /\ pc = "returned"
    /\ \E r \in {schema(Self, ret[1].v)} :
           /\ ret' = Append(ret, r)
           /\ pc' = Ended(r, "renormalized")
    /\ UNCHANGED <<root, root_name, current_type, current_field, types, def_idx, output, arg>>

NormNext == Normalize \/ Renormalize

NormSpec == NormInit /\ [][NormNext]_vars

(***************************************************************************)
(* Expander::expand_type_ applied to one node (TypeSpec)                   *)
(***************************************************************************)
K_T == <<"T">>
F_f == <<"f">>

TypeDoc ==
    Doc(<<<<K_A, Typed("string")>>,
          <<K_B, ArrayOf(Typed("string"))>>,
          <<K_C, Ref(DefRef(K_A))>>,
          <<K_D, Typed("array")>>>>)

\* the members drawn for a two-member anyOf
AnyOfMembers ==
    { Schema0,
      Typed("string"),
      Typed("integer"),
      Typed("array"),
      ArrayOf(Typed("string")),
      ArrayOf(Typed("integer")),
      ArrayOf(Ref(DefRef(K_A))),
      Tags(<<"array", "null">>),
      [Tags(<<"null", "array">>) EXCEPT !.items = <<Typed("string")>>],
      Ref(DefRef(K_A)),
      Ref(DefRef(K_B)),
      Ref(DefRef(K_C)),
      Ref(DefRef(K_D)),
      AllOf(<<Typed("array"), Schema0>>),
      AllOf(<<Typed("array"), Typed("array")>>) }

\* the nodes expand_type_ is applied to
TypeNodes ==
    {AnyOf(m) : m \in SeqsOf(AnyOfMembers, 2, 2)}
    \cup {[AnyOf(m) EXCEPT !.type_ = <<"string">>] : m \in SeqsOf(AnyOfMembers, 2, 2)}
    \cup { AnyOf(<<Typed("string")>>),
           AnyOf(<<Typed("string"), ArrayOf(Typed("string")), Typed("integer")>>),
           [AnyOf(<<Typed("string"), Typed("array")>>) EXCEPT !.ref_ = Some(DefRef(K_A))] }

TypeInit ==
    /\ New(None, TypeDoc)
    /\ pc = "call"
    /\ def_idx = 0
    /\ output = None
    /\ arg \in {Some(n) : n \in TypeNodes}
    /\ ret = <<>>

\* self.expand_type_(arg), called for the field f of the type T
ExpandTypeCall ==
    /\ pc = "call"
    /\ \E r \in {expand_type_([Self EXCEPT !.current_type = K_T, !.current_field = F_f],
                              Get(arg))} :
           /\ ret' = <<r.v>>
           /\ Resume(r.self, "returned")
    /\ UNCHANGED <<root, root_name, def_idx, output, arg>>

TypeNext == ExpandTypeCall

TypeSpec == TypeInit /\ [][TypeNext]_vars

(***************************************************************************)
(* Properties of a run of expand() (Spec)                                  *)
(***************************************************************************)
\* the schema nodes below n, n included
RECURSIVE NodesOf(_)
NodesOf(n) ==
    {n} \cup UNION ({NodesOf(n.properties[i][2]) : i \in 1..Len(n.properties)}
                    \cup {NodesOf(n.definitions[i][2]) : i \in 1..Len(n.definitions)}
                    \cup {NodesOf(n.items[i]) : i \in 1..Len(n.items)}
                    \cup {NodesOf(m) : m \in IF IsSome(n.all_of) THEN Range(Get(n.all_of)) ELSE {}}
                    \cup {NodesOf(m) : m \in IF IsSome(n.any_of) THEN Range(Get(n.any_of)) ELSE {}}
                    \cup {NodesOf(Get(n.additional_properties).schema) :
                            x \in IF IsSome(n.additional_properties)
                                     /\ Get(n.additional_properties).k = "object"
                                  THEN {1} ELSE {}})

\* the nodes a run visits: the definitions, and the root when it is named
VisitedNodes ==
    IF IsSome(root_name) THEN NodesOf(root)
    ELSE UNION {NodesOf(root.definitions[i][2]) : i \in 1..Len(root.definitions)}

\* the $ref strings of the nodes a run visits
VisitedRefs == {Get(n.ref_) : n \in {m \in VisitedNodes : IsSome(m.ref_)}}

\* the reference designates the named root or an entry of definitions
Resolvable(s) ==
    IF s = HASH THEN IsSome(root_name) ELSE schema_ref(Self, s).st = "ok"

Boxed(name) == BOX_LT \o name \o GT
Opt(typ) == OPTION_LT \o typ \o GT

\* the entries of types that are the record of a definition of the root:
\* <<i, k>> for entry i, recorded under the key k, with a field per property
\* of the normalized definition
RecordEntries ==
    {e \in (1..Len(types)) \X Range(MapKeys(root.definitions)) :
        /\ types[e[1]][1] = e[2]
        /\ types[e[1]][2].decl.kind = "struct"
        /\ types[e[1]][2].decl.name = type_name_of(e[2])
        /\ LET n == schema(Self, MapGet(root.definitions, e[2]))
           IN  /\ n.st = "ok"
               /\ MapKeys(n.v.properties)
                    = [j \in 1..Len(types[e[1]][2].decl.fields) |->
                          types[e[1]][2].decl.fields[j].name]}

\* C1: in every record emitted for a definition, a property whose $ref
\* designates the definition itself has the type Box<Name>, inside Option<..>
\* when the property is not required; never the bare name of its own record.
C1_SelfReferenceBoxed ==
    \A e \in RecordEntries :
        LET n == schema(Self, MapGet(root.definitions, e[2])).v
            d == types[e[1]][2].decl
        IN  \A j \in 1..Len(d.fields) :
                n.properties[j][2].ref_ = Some(DefRef(e[2]))
                => d.fields[j].typ = IF is_required(n, d.fields[j].name)
                                     THEN Boxed(d.name) ELSE Opt(Boxed(d.name))

\* C2: a run of expand() finishes: it never enters a call of schema whose
\* recursion does not return.
C2_ExpandTerminates == pc # "diverge"

\* C3: a run does not complete while a $ref of a node it visits designates
\* nothing: such a document makes the run abort.
C3_ReferenceClosure ==
    pc = "done" => \A s \in VisitedRefs : Resolvable(s)

\* the names an entry of types declares
DeclaredNames(entry) ==
    IF entry[2].decl.kind = "optional_enum"
    THEN {entry[2].decl.name, entry[2].decl.enum_name}
    ELSE {entry[2].decl.name}

\* C9: no two entries of types have the same recorded name or declare the
\* same type name.
C9_RegistryNamesUnique ==
    \A i, j \in 1..Len(types) :
        i < j => /\ types[i][1] # types[j][1]
                 /\ DeclaredNames(types[i]) \cap DeclaredNames(types[j]) = {}

(***************************************************************************)
(* Properties of expand_type_ (TypeSpec)                                   *)
(***************************************************************************)
\* the run of the call has ended, one way or another
CallEnded == pc # "call"

\* the node has no $ref and an anyOf of exactly two members
IsAnyOfPair(n) == ~IsSome(n.ref_) /\ IsSome(n.any_of) /\ Len(Get(n.any_of)) = 2

\* "single value or array of that value": the second member, normalized, is
\* typed array first and has an item that normalizes to what the first
\* member normalizes to
IsOneOrMany(n) ==
    LET simple == schema(Self, Get(n.any_of)[1])
        array == schema(Self, Get(n.any_of)[2])
    IN  /\ simple.st = "ok"
        /\ array.st = "ok"
        /\ array.v.type_ # <<>>
        /\ array.v.type_[1] = "array"
        /\ array.v.items # <<>>
        /\ schema(Self, array.v.items[1]) = simple

\* C4: expand_type_ of a node without $ref and with a two-member anyOf
\* returns (it does not abort), and returns serde_json::Value unless the pair
\* is the one-or-many idiom, an array member without items included.
C4_AnyOfDegradesSilently ==
    (CallEnded /\ IsAnyOfPair(Get(arg)) /\ \A m \in NodesOf(Get(arg)) :
                                              IsSome(m.ref_) => Resolvable(Get(m.ref_)))
    => /\ pc = "returned"
       /\ ~IsOneOrMany(Get(arg)) => ret[1].typ = T_VALUE

(***************************************************************************)
(* Properties of schema (NormSpec)                                         *)
(***************************************************************************)
\* C5: the node schema returns carries no $ref and no non-empty allOf, and
\* schema applied to it returns it unchanged.
C5_NormalizerIdempotent ==
    /\ pc = "returned" => ~IsSome(ret[1].v.ref_) /\ ~has_all_of(ret[1].v)
    /\ Len(ret) = 2 => ret[2] = ret[1]

\* a node with neither $ref nor allOf: schema returns it as it is
IsPlain(n) == ~IsSome(n.ref_) /\ ~IsSome(n.all_of)

\* the argument is an allOf, without $ref, of plain elements
IsPlainAllOf(n) ==
    /\ ~IsSome(n.ref_)
    /\ has_all_of(n)
    /\ \A e \in Range(Get(n.all_of)) : IsPlain(e)

\* the tags every set of Ts holds; none when Ts is empty
TagsInAll(Ts) == {t \in UNION Ts : \A T \in Ts : t \in T}

\* C6: the type tags of a normalized allOf are those present in every
\* element that declares a type; an element without type narrows nothing.
C6_AllOfTypeIntersection ==
    (pc = "returned" /\ IsPlainAllOf(Get(arg)))
    => Range(ret[1].v.type_)
         = TagsInAll({Range(e.type_) : e \in {x \in Range(Get(Get(arg).all_of)) : x.type_ # <<>>}})

\* the permutations of the sequence s
Orderings(s) ==
    {[i \in 1..Len(s) |-> s[f[i]]] :
        f \in {g \in [1..Len(s) -> 1..Len(s)] : \A i, j \in 1..Len(s) : g[i] = g[j] => i = j}}

\* the required names of a node, as a set; none when the attribute is absent
RequiredSet(n) == IF IsSome(n.required) THEN Range(Get(n.required)) ELSE {}

\* the argument is an allOf, without $ref, and schema returned its merge
MergedAllOf == pc \in {"returned", "renormalized"} /\ ~IsSome(Get(arg).ref_) /\ has_all_of(Get(arg))

\* the elements of the allOf, each as schema normalizes it
NormalizedElems == {schema(Self, e).v : e \in Range(Get(Get(arg).all_of))}

\* C7: the required attribute of a normalized allOf is, as a set, the union
\* of the required sets of its (normalized) elements that define one, and is
\* absent when none does; every permutation of the elements yields that set.
C7_RequiredUnionAnyOrder ==
    MergedAllOf
    => /\ IsSome(ret[1].v.required) <=> \E e \in NormalizedElems : IsSome(e.required)
       /\ RequiredSet(ret[1].v) = UNION {RequiredSet(e) : e \in NormalizedElems}
       /\ \A q \in Orderings(Get(Get(arg).all_of)) :
              LET n == schema(Self, [Get(arg) EXCEPT !.all_of = Some(q)]).v
              IN  /\ RequiredSet(n) = RequiredSet(ret[1].v)
                  /\ IsSome(n.required) <=> IsSome(ret[1].v.required)

\* {required: []}, {required: [b]}, {required: [a]} merged to {a, b}
C7_Witness ==
    /\ MergedAllOf
    /\ Get(Get(arg).all_of) = <<Required(Schema0, <<>>), Required(Typed("object"), <<F_b>>),
                                Required(Schema0, <<F_a>>)>>
    /\ RequiredSet(ret[1].v) = {F_a, F_b}

\* the type tags of the property are [null, X] or [X, null]
IsNullUnion(p) == Len(p.type_) = 2 /\ "null" \in Range(p.type_)

\* the rule of the two-tag type list containing null is the first that
\* matches the property: no $ref, no anyOf of two members
NullUnionApplies(p) ==
    /\ IsNullUnion(p)
    /\ ~IsSome(p.ref_)
    /\ ~(IsSome(p.any_of) /\ Len(Get(p.any_of)) = 2)

IsOption(typ) == StartsWith(typ, OPTION_LT)

\* the fields of the records of the definitions: <<entry, j, property, field,
\* required>>
RecordFields ==
    UNION {LET n == schema(Self, MapGet(root.definitions, e[2])).v
               d == types[e[1]][2].decl
           IN  {[p |-> n.properties[j][2], f |-> d.fields[j],
                 required |-> is_required(n, d.fields[j].name)] : j \in 1..Len(d.fields)}
           : e \in RecordEntries}

\* C8 as stated: a property that is not required is Option<..> or has its
\* default marker; a property with the type tags [null, X] is Option<..>
\* with the default marker, required or not; a required property that is not
\* a null-union is not Option<..>.
C8_OptionalityAsStated ==
    \A x \in RecordFields :
        /\ ~x.required => IsOption(x.f.typ) \/ x.f.default
        /\ IsNullUnion(x.p) => IsOption(x.f.typ) /\ x.f.default
        /\ x.required /\ ~IsNullUnion(x.p) => ~IsOption(x.f.typ)

\* C8, amended: a property that is not required is Option<..> or has its
\* default marker; a property with the type tags [null, X] that carries
\* neither a $ref nor an anyOf of two members is Option<..> with the default
\* marker, required or not; a required property to which that rule does not
\* apply is not Option<..>.
C8_OptionalityMonotone ==
    \A x \in RecordFields :
        /\ ~x.required => IsOption(x.f.typ) \/ x.f.default
        /\ NullUnionApplies(x.p) => IsOption(x.f.typ) /\ x.f.default
        /\ x.required /\ ~NullUnionApplies(x.p) => ~IsOption(x.f.typ)

\* a record with a required [null, string] property and a string property
\* that is not required
C8_Witness ==
    /\ \E x \in RecordFields :
           x.required /\ NullUnionApplies(x.p) /\ x.f.typ = Opt(T_STRING) /\ x.f.default
    /\ \E x \in RecordFields :
           ~x.required /\ x.p.type_ = <<"string">> /\ ~x.f.default /\ x.f.typ = Opt(T_STRING)

\* the string literals of an enum list, in order
StringLiterals(values) ==
    LET strings == SelectSeq(values, LAMBDA v : v.k = "string")
    IN  [i \in 1..Len(strings) |-> strings[i].s]

\* the node, once normalized, has a property, or the schema says
\* additionalProperties: false
RecordShape(s) ==
    schema(Self, s).v.properties # <<>> \/ s.additional_properties = Some(JBool(FALSE))

\* the schema has an enum list that is not empty
EnumShape(s) == IsSome(s.enum_) /\ Len(Get(s.enum_)) > 0

\* the declaration d is the one the shape of the schema s, named by the key
\* name, calls for; before is the Expander when the fields of s are expanded
ShapeDecided(name, s, d, before) ==
    /\ d.name = type_name_of(name)
    /\ IF RecordShape(s)
       THEN /\ d.kind = "struct"
            /\ MapKeys(schema(Self, s).v.properties) = [j \in 1..Len(d.fields) |-> d.fields[j].name]
       ELSE IF EnumShape(s)
       THEN /\ \A i \in 1..Len(Get(s.enum_)) : Get(s.enum_)[i].k \in {"string", "null"}
            /\ [i \in 1..Len(d.variants) |-> d.variants[i].name]
                 = [i \in 1..Len(StringLiterals(Get(s.enum_))) |->
                       to_pascal_case(StringLiterals(Get(s.enum_))[i])]
            /\ IF \E i \in 1..Len(Get(s.enum_)) : Get(s.enum_)[i].k = "null"
               THEN d.kind = "optional_enum" /\ d.enum_name = d.name \o <<"_">>
               ELSE d.kind = "enum"
       ELSE /\ d.kind = "alias"
            /\ d.typ = expand_type([before EXCEPT !.current_type = type_name_of(name)],
                                   <<>>, TRUE, s).v.typ

\* a literal of the enum list is neither a string nor null
BadLiteral(s) == \E i \in 1..Len(Get(s.enum_)) : Get(s.enum_)[i].k \notin {"string", "null"}

\* the step is expand_schema(name, s) with the Expander `before` once the
\* definitions of s are expanded, returned tells whether the call returned,
\* and entry is then the entry of types the caller pushed
ShapeStep(name, s, before, returned, entry) ==
    /\ returned => entry[1] = name /\ ShapeDecided(name, s, entry[2].decl, before)
    /\ schema(Self, s).st = "ok" /\ ~RecordShape(s) /\ EnumShape(s) /\ BadLiteral(s)
       => ~returned /\ pc' \in {"panic", "diverge"}

\* C10: the declaration emitted for a named schema is a struct when the
\* normalized node has a property or the schema says additionalProperties:
\* false, an enum present or not; otherwise, when the schema has a non-empty
\* enum list, an enum with one variant per string literal, or, when null is
\* among the literals, the alias Option<Name_> of the auxiliary enum Name_,
\* and the call aborts on a literal that is neither a string nor null;
\* otherwise an alias of the type expand_type gives the schema as a required
\* field.
C10_ShapeDecision ==
    [][/\ pc = "expand" /\ def_idx < Len(root.definitions)
          => ShapeStep(root.definitions[def_idx + 1][1], root.definitions[def_idx + 1][2],
                       expand_definitions(Self, root.definitions[def_idx + 1][2]),
                       def_idx' = def_idx + 1, types'[Len(types')])
       /\ pc = "expand" /\ def_idx = Len(root.definitions) /\ IsSome(root_name)
          => ShapeStep(Get(root_name), root, Self, pc' = "collect", types'[Len(types')])]_vars

\* the registry holds a struct, an enum, an alias, or the optional enum of
\* [red, null, Green]
C10_Witness ==
    /\ pc = "done"
    /\ \E i \in 1..Len(types) :
           /\ types[i][2].decl.kind = "optional_enum"
           /\ types[i][2].decl.name = K_A
           /\ types[i][2].decl.enum_name = <<"A", "_">>
           /\ Len(types[i][2].decl.variants) = 2
           /\ MapGet(root.definitions, K_A).enum_ = Some(<<JStr(V_red), JNull, JStr(V_Green)>>)

\* the sequence a is a prefix of the sequence b
IsPrefix(a, b) == Len(a) <= Len(b) /\ SubSeq(b, 1, Len(a)) = a

\* the property is expanded as an inline object: no $ref, no anyOf of two,
\* the single tag object, and a property or additionalProperties: false
IsInlineObject(p) ==
    /\ ~IsSome(p.ref_)
    /\ ~(IsSome(p.any_of) /\ Len(Get(p.any_of)) = 2)
    /\ p.type_ = <<"object">>
    /\ (p.properties # <<>> \/ p.additional_properties = Some(JBool(FALSE)))

\* the step expands the next definition of the root, and the call returns
DefinitionStep == pc = "expand" /\ def_idx < Len(root.definitions) /\ pc' = "expand"

\* the step expands the named root, and the call returns
RootStep == pc = "expand" /\ def_idx = Len(root.definitions) /\ pc' = "collect"

\* the inline record of a property of a record of a definition is an earlier
\* entry of types than that record
InlineBeforeContainer ==
    \A e \in RecordEntries :
        LET n == schema(Self, MapGet(root.definitions, e[2])).v
            d == types[e[1]][2].decl
        IN  \A j \in 1..Len(d.fields) :
                IsInlineObject(n.properties[j][2])
                => \E k \in 1..(e[1] - 1) :
                       d.fields[j].typ \in {types[k][1], Opt(types[k][1])}

\* C11: types only grows, at its end; a definition of the root is registered
\* by one step, once, after the types nested in it, and the steps take the
\* definitions in order, each once; the named root is registered after every
\* definition and is the last entry; without a root name only the steps of
\* the definitions register anything; the inline record of a property comes
\* before the record that has the property; the output lists the
\* declarations of types in the order of types.
C11_DriverOrdering ==
    [][/\ IsPrefix(types, types')
       /\ def_idx' \in {def_idx, def_idx + 1}
       /\ DefinitionStep
          => /\ def_idx' = def_idx + 1
             /\ Len(types') > Len(types)
             /\ types'[Len(types')][1] = root.definitions[def_idx + 1][1]
             /\ SubSeq(types', 1, Len(types') - 1)
                  = expand_schema(Self, root.definitions[def_idx + 1][1],
                                  root.definitions[def_idx + 1][2]).self.types
       /\ RootStep
          => /\ IsSome(root_name)
             /\ Len(types') > Len(types)
             /\ types'[Len(types')][1] = Get(root_name)
             /\ SubSeq(types', 1, Len(types') - 1)
                  = expand_schema_body(Self, Get(root_name), root).self.types
       /\ types' # types /\ ~IsSome(root_name) => DefinitionStep
       /\ types' # types => DefinitionStep \/ RootStep
       /\ pc' = "done"
          => /\ def_idx' = Len(root.definitions)
             /\ output' = Some([i \in 1..Len(types') |-> types'[i][2]])
             /\ IsSome(root_name) => types'[Len(types')][1] = Get(root_name)
       /\ InlineBeforeContainer']_vars

\* a finished run with a root name over a document whose definition A has an
\* inline record: the inline record, then A, then the root
C11_Witness ==
    /\ pc = "done"
    /\ IsSome(root_name)
    /\ Len(types) >= 3
    /\ types[Len(types)][1] = Get(root_name)
    /\ \E e \in RecordEntries :
           LET n == schema(Self, MapGet(root.definitions, e[2])).v
           IN  \E j \in 1..Len(n.properties) : IsInlineObject(n.properties[j][2])
    /\ output = Some([i \in 1..Len(types) |-> types[i][2]])

\* the name of the inline record of the property f of the record named by
\* the key k
InlineName(k, f) == to_pascal_case(type_name_of(k)) \o to_pascal_case(f)

\* C12: in every record of a definition, a property that is an inline object
\* has the type PascalCase(T) + PascalCase(f), T the record and f the
\* property, and a record is registered under that name, whatever the
\* properties expanded before it were.
C12_InlineNaming ==
    \A e \in RecordEntries :
        LET n == schema(Self, MapGet(root.definitions, e[2])).v
            d == types[e[1]][2].decl
        IN  \A j \in 1..Len(d.fields) :
                IsInlineObject(n.properties[j][2])
                => /\ d.fields[j].typ \in {InlineName(e[2], d.fields[j].name),
                                           Opt(InlineName(e[2], d.fields[j].name))}
                   /\ \E k \in 1..(e[1] - 1) :
                          types[k][1] = InlineName(e[2], d.fields[j].name)

(***************************************************************************)
(* Expander::schema_ref and type_ref applied to one reference (RefSpec)    *)
(***************************************************************************)
\* how many segments a drawn reference has at most
MaxSegs == 5

\* the segments a reference is drawn from
Segments == {HASH, DEFINITIONS, K_A, K_B}

\* the segments joined by '/'
RECURSIVE Join(_)
Join(segs) ==
    IF Len(segs) = 1 THEN segs[1]
    ELSE segs[1] \o <<"/">> \o Join(Tail(segs))

References == {Join(segs) : segs \in SeqsOf(Segments, 1, MaxSegs)}

\* A with a definition B of its own beside the B of the root; A without one;
\* A with one and no B in the root
RefDocs ==
    { Doc(<<<<K_A, WithDefs(Typed("string"), <<<<K_B, Typed("integer")>>>>)>>,
            <<K_B, Typed("boolean")>>>>),
      Doc(<<<<K_A, Typed("string")>>, <<K_B, Typed("boolean")>>>>),
      Doc(<<<<K_A, WithDefs(Typed("string"), <<<<K_B, Typed("integer")>>>>)>>>>) }

RefInit ==
    /\ \E doc \in RefDocs, name \in {None, Some(K_Root)} : New(name, doc)
    /\ pc = "call"
    /\ def_idx = 0
    /\ output = None
    /\ arg \in {Some(s) : s \in References}
    /\ ret = <<>>

\* self.schema_ref(arg)
SchemaRefCall ==
    /\ pc = "call"
    /\ \E r \in {schema_ref(Self, Get(arg))} :
           /\ ret' = <<r>>
           /\ pc' = Ended(r, "returned")
    /\ UNCHANGED <<root, root_name, current_type, current_field, types, def_idx, output, arg>>

\* self.type_ref(arg)
TypeRefCall ==
    /\ pc \in {"returned", "panic"}
    /\ Len(ret) = 1
    /\ \E r \in {type_ref(Self, Get(arg))} : ret' = Append(ret, r)
    /\ pc' = "named"
    /\ UNCHANGED <<root, root_name, current_type, current_field, types, def_idx, output, arg>>

RefNext == SchemaRefCall \/ TypeRefCall

RefSpec == RefInit /\ [][RefNext]_vars

\* the last segment of the reference
LastSegment(s) == Split(s)[Len(Split(s))]

\* the reference ends with a name: neither '#' nor 'definitions'
EndsWithName(s) == LastSegment(s) \notin {HASH, DEFINITIONS}

\* C13: for a reference whose last segment is a name, schema_ref returns the
\* entry of the definitions of the root document under that name, whenever
\* the root document has one, and returns no other node; type_ref names the
\* reference by that segment.
C13_RefResolvesAtRoot ==
    Len(ret) >= 1 /\ EndsWithName(Get(arg))
    => /\ MapHas(root.definitions, LastSegment(Get(arg)))
          => ret[1] = Ok(MapGet(root.definitions, LastSegment(Get(arg))))
       /\ ret[1].st = "ok" => MapHas(root.definitions, LastSegment(Get(arg)))
       /\ Len(ret) = 2 => ret[2] = Ok(type_name_of(LastSegment(Get(arg))))

====
